---- MODULE Spec2Model ----
(***************************************************************************)
(* The simulation core of ReSnake: the engine's state machine and frame    *)
(* loop, the input, movement and collision systems, the snake and the      *)
(* food.  JavaScript is single threaded, so every handler (a frame         *)
(* callback, a key event, a timer, a call of the engine's API) runs to     *)
(* completion: each is one action, computed by composing the operators     *)
(* that model the methods it calls, in the order the code calls them.      *)
(* The operators work on a record s holding the program's fields.          *)
(***************************************************************************)
EXTENDS Integers, Sequences, FiniteSets, TLC

\* ------------------------------------------------------------------ bounds
\* The board is BOARD_SIZE x BOARD_SIZE (20 in the program).
BOARD_SIZE == 3
\* A move that would make the body longer than this is not taken.
MaxLen == 3
\* ... or, in the sessions that count the score, longer than this.
MaxLong == 8
\* At most this many requestAnimationFrame callbacks are pending at once.
MaxPending == 2
\* The random position generator draws among this many free cells.
FoodChoices == 2

\* A normal food eaten when the counter has this value is not counted.
MaxEaten == 6
\* At most this many superfoods are spawned.
MaxSpawns == 3
\* At most this many components are constructed for the entity.
MaxComponents == 4
\* The score is not incremented beyond this.
MaxScore == 18
\* At most this many scores are added to the leaderboard, or passed in one batch.
MaxEntries == 3
\* At most this many insert requests await their response at once.
MaxInFlight == 2
\* The clock is not advanced beyond this many steps (half minutes).
MaxTicks == 2
\* No request is sent that would bring the rows of the cloud table beyond this.
MaxRows == 12

\* ------------------------------------------------------- program constants
INITIAL_SPEED == 200
\* SUPER_FOOD_CONFIG
SIZE == 2
SPAWN_EVERY_NORMALS == 5
\* generateSafeObstaclePosition
maxAttempts == 100
\* GameModeService.calculateSpeed
MIN_SPEED == 50
\* CollisionSystem: the delay of setTimeout(onFoodEaten), in ms
EAT_DELAY == 150
\* RATE_LIMITING, SUPABASE_VALIDATION
MAX_INSERTS_PER_MINUTE == 10
MAX_INSERTS_PER_HOUR == 100
MAX_SCORES_PER_SYNC == 50
\* The windows of checkRateLimit and updateRateLimit, in ms
MINUTE == 60000
HOUR == 3600000
\* Date.now() advances by half a minute at a time.
TickStep == MINUTE \div 2
Times == {k * TickStep : k \in 0 .. MaxTicks}
\* The time between two frames is a multiple of half the initial move interval.
FrameStep == INITIAL_SPEED \div 2

IDLE == "IDLE"
PLAYING == "PLAYING"
PAUSED == "PAUSED"
GAME_OVER == "GAME_OVER"
GameState == {IDLE, PLAYING, PAUSED, GAME_OVER}

\* DIRECTIONS, as <<x, y>>
UP == <<0, -1>>
DOWN == <<0, 1>>
LEFT == <<-1, 0>>
RIGHT == <<1, 0>>
DIRECTIONS == {UP, DOWN, LEFT, RIGHT}

\* GameMode
GameModes == {"classic", "speed", "wall"}

\* pendingDirection: Direction | null
NoDirection == <<0, 0>>
\* superFood: SuperFood | null (a superfood is modelled by its top-left cell)
NoSuperFood == <<-1, -1>>
\* let position: Position, before it is assigned
NoPosition == <<-1, -1>>
\* animationFrameId: number | null
NoHandle == 0
\* let newSpeed, before calculateSpeed has returned
NoSpeed == 0
\* localStorage.getItem(key) === null
NoItem == [count |-> 0, timestamp |-> -1]
\* getComponent(type): T | undefined (a component is modelled by its identity)
NoComponent == 0
\* Component.type of the components the entities are given
ComponentTypes == {"Velocity", "Renderable", "Collidable"}

Cells == (0 .. BOARD_SIZE - 1) \X (0 .. BOARD_SIZE - 1)
\* The elapsed times a frame callback can observe (timestamp - lastTimestamp).
Deltas == {0, FrameStep, 2 * FrameStep}

VARIABLES
  state,             \* GameEngine.state
  animationFrameId,  \* GameEngine.animationFrameId
  rafQueue,          \* the host's pending requestAnimationFrame callbacks (their ids)
  pendingDirection,  \* InputSystem.pendingDirection
  enabled,           \* InputSystem.enabled
  isSwiping,         \* InputSystem.isSwiping
  accumulator,       \* MovementSystem.accumulator
  hasWallCollision,  \* MovementSystem.hasWallCollision
  body,              \* Snake.body, head first
  velocity,          \* the snake's Velocity component
  shouldGrow,        \* Snake.shouldGrow
  foodPosition,      \* Food.position
  isBeingEaten,      \* Food.isBeingEaten
  eatTimer,          \* the setTimeout(onFoodEaten, 150) of CollisionSystem is pending
  obstacles,         \* CollisionSystem.obstacles (their positions)
  isPaused,          \* Game.isPaused
  stopsOnGameOver,   \* the registered outcome callbacks call engine.stop() (Game.handleGameOver)
  signals,           \* what the last run of GameEngine.update did, in order: the system updates, the committed move, the outcome signals; then what the input system did since: "cleared" a pending direction, "ignored" an event, "overwrote" a pending direction
  lastMoveDir,       \* the velocity used by the last committed move
  lastEvent,         \* the direction of the last key, button or swipe event received while enabled that update() has not consumed nor disable() cleared
  accumulated,       \* MovementSystem.accumulator right after `+= deltaTime` in the last frame whose elapsed time was kept (TimedFrame)
  csSuperFood,       \* CollisionSystem.superFood (its position, the anchor), NoSuperFood when undefined
  superBeingEaten,   \* SuperFood.isBeingEaten of that superfood
  superEatTimers,    \* how many setTimeout(onSuperFoodEaten, 150) of CollisionSystem are pending
  foodCollisions,    \* how many times checkFoodCollision took its food branch since the session was set up
  superCollisions,   \* how many times checkFoodCollision took its superfood branch since then
  sinceEaten         \* the time the frames have added since the pending setTimeout(onFoodEaten, 150) was set (kept by SlowFrameCallback)

\* SuperFoodService
VARIABLES
  active,              \* SuperFoodService.active
  superFood,           \* SuperFoodService.superFood and .position
  normalEatenCounter,  \* SuperFoodService.normalEatenCounter
  expireTimeout,       \* SuperFoodService.expireTimeout
  timers,              \* the host's pending setTimeout callbacks of the service (their ids)
  issued,              \* how many timer ids setTimeout has returned to the service
  expired,             \* the superfoods (by the id of their timer) onExpired was called for, in order
  early,               \* the superfoods despawned by a call (despawn, reset, a new spawn) while active
  eatenSince,          \* how many normal foods were eaten since the last spawn or reset
  coveredCells         \* what the last call of superFood.getCoveredCells() returned

superFoodVars == <<active, superFood, normalEatenCounter, expireTimeout, timers, issued,
                   expired, early, eatenSince, coveredCells>>

coreVars == <<state, animationFrameId, rafQueue, pendingDirection, enabled, isSwiping,
              accumulator, hasWallCollision, body, velocity, shouldGrow, foodPosition, isBeingEaten,
              eatTimer, obstacles, isPaused, stopsOnGameOver, signals, lastMoveDir,
              lastEvent, accumulated, csSuperFood, superBeingEaten, superEatTimers,
              foodCollisions, superCollisions, sinceEaten>>

\* A placement request in progress: a call of generateRandomPosition,
\* generateRandomTopLeftArea or generateSafeObstaclePosition, one step per
\* iteration of its do-while loop.
VARIABLES
  placing,            \* which of the three functions is running, or "none"
  excludeArg,         \* its argument excludePositions
  criticalPositions,  \* its argument criticalPositions (generateSafeObstaclePosition)
  drawn,              \* its local position, the last one drawn
  attempts,           \* its local attempts (generateSafeObstaclePosition)
  returned            \* what the last call returned

placementVars == <<placing, excludeArg, criticalPositions, drawn, attempts, returned>>

\* BaseEntity
VARIABLES
  components,  \* BaseEntity.components, the Map's entries in insertion order
  made,        \* how many components were constructed
  lastAdded,   \* for each type, the component added last and not removed since
  found        \* what the last calls getComponent(type) and hasComponent(type) returned

entityVars == <<components, made, lastAdded, found>>

\* The score and the speed that follows it
VARIABLES
  currentMode,   \* GameModeService.currentMode
  score,         \* ScoreService.score
  moveInterval,  \* MovementSystem.moveInterval
  newSpeed       \* what the last call of calculateSpeed returned

speedVars == <<currentMode, score, moveInterval, newSpeed>>

\* LeaderboardService, SupabaseService and the cloud table; every score entry
\* is of the same player.
VARIABLES
  scores,          \* LeaderboardService.scores: for each entry, its id and syncedToCloud
  syncInProgress,  \* LeaderboardService.syncInProgress
  rateLimit,       \* the player's two items of localStorage: minute and hour
  requests,        \* the insert requests that await their response
  cloud,           \* for each entry id, how many rows of the cloud table were inserted for it
  sent,            \* for each time, how many rows were inserted at that time
  now              \* Date.now()

cloudVars == <<scores, syncInProgress, rateLimit, requests, cloud, sent, now>>

vars == <<coreVars, superFoodVars, placementVars, entityVars, speedVars, cloudVars>>

\* What a handler of one part of the program leaves alone: the other parts.
besidesCore == <<superFoodVars, placementVars, entityVars, speedVars, cloudVars>>
besidesSuperFood == <<coreVars, placementVars, entityVars, speedVars, cloudVars>>
besidesPlacement == <<coreVars, superFoodVars, entityVars, speedVars, cloudVars>>
besidesEntity == <<coreVars, superFoodVars, placementVars, speedVars, cloudVars>>
besidesSpeed == <<coreVars, superFoodVars, placementVars, entityVars, cloudVars>>
besidesCloud == <<coreVars, superFoodVars, placementVars, entityVars, speedVars>>

\* The program's fields as one record, and the step that stores a record back.
Cur ==
  [state |-> state, animationFrameId |-> animationFrameId, rafQueue |-> rafQueue,
   pendingDirection |-> pendingDirection, enabled |-> enabled, isSwiping |-> isSwiping,
   accumulator |-> accumulator, body |-> body, velocity |-> velocity,
   shouldGrow |-> shouldGrow, foodPosition |-> foodPosition,
   isBeingEaten |-> isBeingEaten, eatTimer |-> eatTimer, isPaused |-> isPaused,
   signals |-> signals, lastMoveDir |-> lastMoveDir, lastEvent |-> lastEvent,
   accumulated |-> accumulated, csSuperFood |-> csSuperFood,
   superBeingEaten |-> superBeingEaten, superEatTimers |-> superEatTimers,
   foodCollisions |-> foodCollisions, superCollisions |-> superCollisions,
   sinceEaten |-> sinceEaten]

Stores(s) ==
  /\ state' = s.state
  /\ animationFrameId' = s.animationFrameId
  /\ rafQueue' = s.rafQueue
  /\ pendingDirection' = s.pendingDirection
  /\ enabled' = s.enabled
  /\ isSwiping' = s.isSwiping
  /\ accumulator' = s.accumulator
  /\ body' = s.body
  /\ velocity' = s.velocity
  /\ shouldGrow' = s.shouldGrow
  /\ foodPosition' = s.foodPosition
  /\ isBeingEaten' = s.isBeingEaten
  /\ eatTimer' = s.eatTimer
  /\ isPaused' = s.isPaused
  /\ signals' = s.signals
  /\ lastMoveDir' = s.lastMoveDir
  /\ lastEvent' = s.lastEvent
  /\ accumulated' = s.accumulated
  /\ csSuperFood' = s.csSuperFood
  /\ superBeingEaten' = s.superBeingEaten
  /\ superEatTimers' = s.superEatTimers
  /\ foodCollisions' = s.foodCollisions
  /\ superCollisions' = s.superCollisions
  /\ sinceEaten' = s.sinceEaten
  /\ UNCHANGED <<hasWallCollision, obstacles, stopsOnGameOver>>

Becomes(s) == Stores(s) /\ UNCHANGED besidesCore

Signal(s, what) == [s EXCEPT !.signals = Append(@, what)]

\* The same, recorded once.
Mark(s, what) ==
  IF \E i \in 1 .. Len(s.signals) : s.signals[i] = what THEN s ELSE Signal(s, what)

\* What bounds the model: the body's length and the pending callbacks.
WithinBounds(s) == Len(s.body) <= MaxLen /\ Cardinality(s.rafQueue) <= MaxPending

\* A handler that leaves the program's fields as in s is a step to s.
Do(s) == \E after \in {s} : WithinBounds(after) /\ Becomes(after)

\* ------------------------------------------------------ components, entities
\* Velocity.isOpposite
isOpposite(v, other) == v[1] = -other[1] /\ v[2] = -other[2]

\* Position.add
PositionAdd(p, vector) == <<p[1] + vector[1], p[2] + vector[2]>>

\* Snake.head
head(s) == s.body[1]

\* Snake.grow
grow(s) == [s EXCEPT !.shouldGrow = TRUE]

\* Snake.move that forgets to clear the flag after growing.
moveKeepsFlag(s, newHead) ==
  LET unshifted == <<newHead>> \o s.body
  IN  IF ~s.shouldGrow
        THEN [s EXCEPT !.body = SubSeq(unshifted, 1, Len(unshifted) - 1)]
        ELSE [s EXCEPT !.body = unshifted]

\* Snake.move that never pops the tail.
moveNeverPops(s, newHead) ==
  [s EXCEPT !.body = <<newHead>> \o s.body, !.shouldGrow = FALSE]

\* Snake.move that removes the segment behind the new head instead of the tail.
movePopsNeck(s, newHead) ==
  IF ~s.shouldGrow
    THEN [s EXCEPT !.body = <<newHead>> \o SubSeq(s.body, 2, Len(s.body))]
    ELSE [s EXCEPT !.body = <<newHead>> \o s.body, !.shouldGrow = FALSE]

\* Snake.move: unshift the new head; pop the tail unless the snake should grow,
\* and then clear the flag.
move(s, newHead) ==
  LET unshifted == <<newHead>> \o s.body
  IN  IF ~s.shouldGrow
        THEN [s EXCEPT !.body = SubSeq(unshifted, 1, Len(unshifted) - 1)]
        ELSE [s EXCEPT !.body = unshifted, !.shouldGrow = FALSE]

\* Snake.checkSelfCollision that compares the head with itself too.
checkSelfCollisionWithHead(s) == \E i \in 1 .. Len(s.body) : s.body[i] = head(s)

\* Snake.checkSelfCollision that leaves the last segment out.
checkSelfCollisionSkipsTail(s) == \E i \in 2 .. Len(s.body) - 1 : s.body[i] = head(s)

\* Snake.checkSelfCollision: body.slice(1).some(segment => segment.equals(head))
checkSelfCollision(s) == \E i \in 2 .. Len(s.body) : s.body[i] = head(s)

\* ------------------------------------------------------------------ engine
\* GameEngine.stop that cancels the frame but leaves the state as it is.
stopKeepsState(s) ==
  [s EXCEPT !.rafQueue = @ \ {s.animationFrameId}, !.animationFrameId = NoHandle]

\* GameEngine.stop
stop(s) ==
  LET cancelled == IF s.animationFrameId # NoHandle
                     THEN s.rafQueue \ {s.animationFrameId}
                     ELSE s.rafQueue
  IN  [s EXCEPT !.state = GAME_OVER, !.rafQueue = cancelled,
                !.animationFrameId = NoHandle]

\* GameEngine.pause
pause(s) == [s EXCEPT !.state = PAUSED]

\* Game.handleGameOver, the callback Game registers for game-over and for
\* wall-collision: it stops the engine (and plays a sound, records the score,
\* shows the game-over screen: none of the core's state).
handleGameOver(s) == Signal(stop(s), "stop")

\* The registered outcome callback: Game.handleGameOver, or a collaborator
\* that ignores the signal.
onGameOver(s) ==
  IF stopsOnGameOver THEN handleGameOver(Signal(s, "gameOver")) ELSE Signal(s, "gameOver")

onWallCollision(s) ==
  IF stopsOnGameOver THEN handleGameOver(Signal(s, "wallCollision"))
  ELSE Signal(s, "wallCollision")

\* ------------------------------------------------------------ input system
\* InputSystem.update that takes the pending direction whatever the velocity is.
InputUpdateUnchecked(s) ==
  IF ~s.enabled \/ s.pendingDirection = NoDirection THEN s
  ELSE [s EXCEPT !.velocity = s.pendingDirection, !.pendingDirection = NoDirection,
                 !.lastEvent = NoDirection]

\* InputSystem.update
InputUpdate(s) ==
  IF ~s.enabled \/ s.pendingDirection = NoDirection THEN s
  ELSE IF ~isOpposite(s.velocity, s.pendingDirection)
         THEN [s EXCEPT !.velocity = s.pendingDirection, !.pendingDirection = NoDirection,
                        !.lastEvent = NoDirection]
         ELSE s

\* The handler of a key or button that keeps a direction that is pending already.
keyPressedKeepsFirst(s, direction) ==
  IF ~s.enabled THEN Mark(s, "ignored")
  ELSE IF s.pendingDirection # NoDirection THEN s
  ELSE [s EXCEPT !.pendingDirection = direction]

\* InputSystem.handleKeyPress for a key KEY_MAPPINGS maps to direction, and the
\* handler of the direction button for direction (setupTouchControls): the same
\* test and the same assignment.
keyPressed(s, direction) ==
  IF ~s.enabled THEN Mark(s, "ignored") ELSE [s EXCEPT !.pendingDirection = direction]

\* InputSystem.handleTouchStart
handleTouchStart(s) ==
  IF ~s.enabled THEN s ELSE [s EXCEPT !.isSwiping = TRUE]

\* InputSystem.handleTouchEnd that does not look at enabled.
handleTouchEndUnchecked(s, swipe) ==
  IF ~s.isSwiping THEN s
  ELSE IF swipe = NoDirection THEN [s EXCEPT !.isSwiping = FALSE]
  ELSE [s EXCEPT !.isSwiping = FALSE, !.pendingDirection = swipe]

\* InputSystem.handleTouchEnd; swipe is the dominant direction of the gesture,
\* NoDirection when it is shorter than minSwipeDistance.  The record tells
\* when the assignment "overwrote" another direction that was pending.
handleTouchEnd(s, swipe) ==
  IF ~s.isSwiping \/ ~s.enabled
    THEN [(IF ~s.enabled THEN Mark(s, "ignored") ELSE s) EXCEPT !.isSwiping = FALSE]
  ELSE IF swipe = NoDirection THEN [s EXCEPT !.isSwiping = FALSE]
  ELSE LET over == IF s.pendingDirection \notin {NoDirection, swipe}
                     THEN Mark(s, "overwrote") ELSE s
       IN  [over EXCEPT !.isSwiping = FALSE, !.pendingDirection = swipe]

\* InputSystem.enable, InputSystem.disable
enable(s) == [s EXCEPT !.enabled = TRUE]
disable(s) ==
  LET cleared == IF s.pendingDirection # NoDirection THEN Mark(s, "cleared") ELSE s
  IN  [cleared EXCEPT !.enabled = FALSE, !.pendingDirection = NoDirection,
                      !.lastEvent = NoDirection]

\* --------------------------------------------------------- movement system
\* MovementSystem.checkWallCollision
checkWallCollision(p) ==
  p[1] < 0 \/ p[1] >= BOARD_SIZE \/ p[2] < 0 \/ p[2] >= BOARD_SIZE

\* MovementSystem.wrapPosition that returns the position as it came.
wrapPositionNone(p) == p

\* MovementSystem.wrapPosition that keeps the position on the edge it left.
wrapPositionStays(p) ==
  LET x == IF p[1] < 0 THEN 0 ELSE IF p[1] >= BOARD_SIZE THEN BOARD_SIZE - 1 ELSE p[1]
      y == IF p[2] < 0 THEN 0 ELSE IF p[2] >= BOARD_SIZE THEN BOARD_SIZE - 1 ELSE p[2]
  IN  <<x, y>>

\* MovementSystem.wrapPosition: four assignments, in this order
wrapPosition(p) ==
  LET x1 == IF p[1] < 0 THEN BOARD_SIZE - 1 ELSE p[1]
      x2 == IF x1 >= BOARD_SIZE THEN 0 ELSE x1
      y1 == IF p[2] < 0 THEN BOARD_SIZE - 1 ELSE p[2]
      y2 == IF y1 >= BOARD_SIZE THEN 0 ELSE y1
  IN  <<x2, y2>>

\* this.snake.move(newHead) in moveSnake: the move is committed, and the run's
\* record tells how: "grown" when the tail was kept, "ontoTail" when the new
\* head is the cell the tail had before the move.
commit(s, newHead) ==
  LET moved == Signal(move(s, newHead), "move")
      grown == IF s.shouldGrow THEN Signal(moved, "grown") ELSE moved
      onto == IF newHead = s.body[Len(s.body)] THEN Signal(grown, "ontoTail") ELSE grown
  IN  [onto EXCEPT !.lastMoveDir = s.velocity]

\* MovementSystem.moveSnake without the return after the wall-collision callback.
moveSnakeNoReturn(s) ==
  LET newHead == PositionAdd(head(s), s.velocity)
      signalled == IF hasWallCollision /\ checkWallCollision(newHead)
                     THEN onWallCollision(s) ELSE s
      wrapped == IF ~hasWallCollision THEN wrapPosition(newHead) ELSE newHead
  IN  commit(signalled, wrapped)

\* MovementSystem.moveSnake
moveSnake(s) ==
  LET newHead == PositionAdd(head(s), s.velocity)
  IN  IF hasWallCollision /\ checkWallCollision(newHead)
        THEN onWallCollision(s)
        ELSE LET wrapped == IF ~hasWallCollision THEN wrapPosition(newHead) ELSE newHead
             IN  commit(s, wrapped)

\* MovementSystem.update that subtracts the interval from the accumulator
\* instead of resetting it.
MovementUpdateKeepsExcess(s, deltaTime) ==
  LET acc == s.accumulator + deltaTime
  IN  IF acc < moveInterval
        THEN [s EXCEPT !.accumulator = acc]
        ELSE moveSnake([s EXCEPT !.accumulator = acc - moveInterval])

\* MovementSystem.update
MovementUpdate(s, deltaTime) ==
  LET acc == s.accumulator + deltaTime
  IN  IF acc < moveInterval
        THEN [s EXCEPT !.accumulator = acc]
        ELSE moveSnake([s EXCEPT !.accumulator = 0])

\* -------------------------------------------------------- collision system
\* SuperFood.getCoveredCells that adds x where it should add y.
getCoveredCellsNoY(position) ==
  [k \in 1 .. SIZE * SIZE |->
     <<position[1] + ((k - 1) \div SIZE), position[2] + ((k - 1) \div SIZE)>>]

\* SuperFood.getCoveredCells: the cells pushed by the two nested loops, x outside
getCoveredCells(position) ==
  [k \in 1 .. SIZE * SIZE |->
     <<position[1] + ((k - 1) \div SIZE), position[2] + ((k - 1) % SIZE)>>]

\* CollisionSystem.checkFoodCollision that forgets snake.grow().
checkFoodCollisionNoGrow(s) ==
  IF head(s) = s.foodPosition /\ ~s.isBeingEaten
    THEN Signal([s EXCEPT !.isBeingEaten = TRUE, !.eatTimer = TRUE], "food")
    ELSE s

\* CollisionSystem.checkFoodCollision that does not look at food.beingEaten.
checkFoodCollisionAgain(s) ==
  IF head(s) = s.foodPosition
    THEN Signal([grow(s) EXCEPT !.isBeingEaten = TRUE, !.eatTimer = TRUE], "food")
    ELSE s

\* CollisionSystem.checkFoodCollision that relocates the eaten food at once.
checkFoodCollisionRelocates(s) ==
  IF head(s) = s.foodPosition /\ ~s.isBeingEaten
    THEN Signal([grow(s) EXCEPT !.foodPosition = NoPosition, !.foodCollisions = @ + 1],
                "food")
    ELSE s

\* CollisionSystem.checkFoodCollision, its second if: the superfood, when the
\* system has one (Game registers none).
checkSuperFoodCollision(s) ==
  IF /\ s.csSuperFood # NoSuperFood
     /\ ~s.superBeingEaten
     /\ \E k \in 1 .. SIZE * SIZE : getCoveredCells(s.csSuperFood)[k] = head(s)
    THEN Signal([grow(s) EXCEPT !.superBeingEaten = TRUE, !.superEatTimers = @ + 1,
                                !.superCollisions = @ + 1], "superFood")
    ELSE s

\* CollisionSystem.checkFoodCollision
checkFoodCollision(s) ==
  LET eaten == IF head(s) = s.foodPosition /\ ~s.isBeingEaten
                 THEN Signal([grow(s) EXCEPT !.isBeingEaten = TRUE, !.eatTimer = TRUE,
                                             !.foodCollisions = @ + 1], "food")
                 ELSE s
  IN  checkSuperFoodCollision(eaten)

\* CollisionSystem.checkSelfCollision
CollisionSelf(s) == IF checkSelfCollision(s) THEN onGameOver(s) ELSE s

\* CollisionSystem.checkObstacleCollision
checkObstacleCollision(s) ==
  IF obstacles = {} THEN s
  ELSE IF head(s) \in obstacles THEN onGameOver(s) ELSE s

\* CollisionSystem.update
CollisionUpdate(s) == checkObstacleCollision(CollisionSelf(checkFoodCollision(s)))

\* ------------------------------------------------------------- engine loop
\* GameEngine.update with the collision system added before the movement system.
updateCollisionFirst(s, deltaTime) ==
  LET afterInput == InputUpdate([s EXCEPT !.signals = <<"input">>])
      afterCollision == CollisionUpdate(Signal(afterInput, "collision"))
      afterMovement == MovementUpdate(Signal(afterCollision, "movement"), deltaTime)
  IN  Signal(afterMovement, "render")

\* GameEngine.update: the systems in the order Game.setupGame added them
\* (the render system changes nothing of the core).
update(s, deltaTime) ==
  LET afterInput == InputUpdate([s EXCEPT !.signals = <<"input">>])
      afterMovement == MovementUpdate(Signal(afterInput, "movement"), deltaTime)
      afterCollision == CollisionUpdate(Signal(afterMovement, "collision"))
  IN  Signal(afterCollision, "render")

\* requestAnimationFrame returns a handle no pending callback has: the least
\* one (the caller overwrites the handle it stored before, so that one is free).
FreshHandle(s) ==
  CHOOSE h \in 1 .. MaxPending + 1 :
    /\ h \notin s.rafQueue
    /\ \A g \in 1 .. h - 1 : g \in s.rafQueue

requestAnimationFrame(s) ==
  LET h == FreshHandle(s)
  IN  [s EXCEPT !.animationFrameId = h, !.rafQueue = @ \cup {h}]

\* GameEngine.loop without the check of the state.
loopUnchecked(s, deltaTime) == requestAnimationFrame(update(s, deltaTime))

\* GameEngine.loop
loop(s, deltaTime) ==
  IF s.state # PLAYING THEN s
  ELSE requestAnimationFrame(update(s, deltaTime))

\* GameEngine.start
start(s) ==
  IF s.state = PLAYING THEN s
  ELSE loop([s EXCEPT !.state = PLAYING], 0)

\* GameEngine.resume without the check of the state.
resumeUnchecked(s) == loop([s EXCEPT !.state = PLAYING], 0)

\* GameEngine.resume that leaves lastTimestamp as it was: the first frame
\* sees the time spent paused.
resumeCountsPause(s) ==
  IF s.state = PAUSED THEN loop([s EXCEPT !.state = PLAYING], 2 * FrameStep)
  ELSE s

\* GameEngine.resume
resume(s) ==
  IF s.state = PAUSED THEN loop([s EXCEPT !.state = PLAYING], 0)
  ELSE s

\* Game.togglePause
togglePause(s) ==
  IF s.isPaused
    THEN enable([resume(s) EXCEPT !.isPaused = FALSE])
    ELSE disable([pause(s) EXCEPT !.isPaused = TRUE])

\* Game.handleFoodEaten: the food is relocated to a cell the generator drew
handleFoodEaten(s, newPosition) ==
  [s EXCEPT !.foodPosition = newPosition, !.isBeingEaten = FALSE, !.eatTimer = FALSE]

\* generateRandomPosition that returns a cell without looking at the excluded ones.
generateRandomPositionAny(excludePositions) ==
  {p \in Cells : p[2] * BOARD_SIZE + p[1] < FoodChoices}

\* generateRandomPosition: the cells it can return, those no excluded position
\* equals; the draws are taken among the first FoodChoices of them, row by row.
generateRandomPosition(excludePositions) ==
  LET free == {p \in Cells : \A i \in 1 .. Len(excludePositions) : excludePositions[i] # p}
      rank(p) == p[2] * BOARD_SIZE + p[1]
  IN  {p \in free : Cardinality({q \in free : rank(q) < rank(p)}) < FoodChoices}

\* -------------------------------------------------------------- superfood
\* isAreaColliding that looks at the area's top-left cell only.
isAreaCollidingTopLeft(topLeft, width, height, excludePositions) ==
  \E i \in 1 .. Len(excludePositions) : excludePositions[i] = topLeft

\* isAreaColliding
isAreaColliding(topLeft, width, height, excludePositions) ==
  \E x \in 0 .. width - 1, y \in 0 .. height - 1 :
    \E i \in 1 .. Len(excludePositions) :
      excludePositions[i] = <<topLeft[1] + x, topLeft[2] + y>>

\* generateRandomTopLeftArea: the positions it can return
generateRandomTopLeftArea(areaWidth, areaHeight, excludePositions) ==
  {p \in (0 .. BOARD_SIZE - areaWidth) \X (0 .. BOARD_SIZE - areaHeight) :
     ~isAreaColliding(p, areaWidth, areaHeight, excludePositions)}

\* The service's fields as one record, and the step that stores a record back.
Service ==
  [active |-> active, superFood |-> superFood, normalEatenCounter |-> normalEatenCounter,
   expireTimeout |-> expireTimeout, timers |-> timers, issued |-> issued,
   expired |-> expired, early |-> early, eatenSince |-> eatenSince]

ServiceStores(f) ==
  /\ active' = f.active
  /\ superFood' = f.superFood
  /\ normalEatenCounter' = f.normalEatenCounter
  /\ expireTimeout' = f.expireTimeout
  /\ timers' = f.timers
  /\ issued' = f.issued
  /\ expired' = f.expired
  /\ early' = f.early
  /\ eatenSince' = f.eatenSince
  /\ UNCHANGED coveredCells

ServiceBecomes(f) == ServiceStores(f) /\ UNCHANGED besidesSuperFood

\* SuperFoodService.onNormalEaten
onNormalEaten(f) ==
  [f EXCEPT !.normalEatenCounter = @ + 1, !.eatenSince = @ + 1]

\* SuperFoodService.shouldSpawn
shouldSpawn(f, mode) ==
  /\ ~f.active
  /\ mode = "classic" \/ mode = "wall"
  /\ f.normalEatenCounter >= SPAWN_EVERY_NORMALS

\* SuperFoodService.despawn that leaves the timer pending.
despawnKeepsTimer(f) ==
  [f EXCEPT !.active = FALSE, !.superFood = NoSuperFood, !.expireTimeout = NoHandle]

\* SuperFoodService.despawn
despawn(f) ==
  [f EXCEPT !.active = FALSE, !.superFood = NoSuperFood,
            !.timers = IF f.expireTimeout # NoHandle THEN @ \ {f.expireTimeout} ELSE @,
            !.expireTimeout = NoHandle]

\* A call of despawn() from outside the expiry timer ends the active superfood early.
despawnEarly(f) ==
  despawn([f EXCEPT !.early = IF f.active THEN @ \cup {f.expireTimeout} ELSE @])

\* SuperFoodService.spawn that leaves normalEatenCounter as it is.
spawnKeepsCounter(f, position) ==
  LET cleared == IF f.active THEN despawnEarly(f) ELSE f
      id == cleared.issued + 1
  IN  [cleared EXCEPT !.superFood = position, !.active = TRUE, !.eatenSince = 0,
                      !.issued = id, !.expireTimeout = id, !.timers = @ \cup {id}]

\* SuperFoodService.spawn; position is what generateValidPosition returned, the
\* timer's id the next one of the host.
spawn(f, position) ==
  LET cleared == IF f.active THEN despawnEarly(f) ELSE f
      id == cleared.issued + 1
  IN  [cleared EXCEPT !.superFood = position, !.active = TRUE,
                      !.normalEatenCounter = 0, !.eatenSince = 0,
                      !.issued = id, !.expireTimeout = id, !.timers = @ \cup {id}]

\* SuperFoodService.reset
reset(f) == despawnEarly([f EXCEPT !.normalEatenCounter = 0, !.eatenSince = 0])

\* The callback spawn gave to setTimeout, run by the host for the timer id.
expire(f, id) ==
  LET despawned == despawn([f EXCEPT !.timers = @ \ {id}])
  IN  [despawned EXCEPT !.expired = Append(@, id)]

\* A new SuperFoodService.
NoSuperFoodYet ==
  /\ active = FALSE
  /\ superFood = NoSuperFood
  /\ normalEatenCounter = 0
  /\ expireTimeout = NoHandle
  /\ timers = {}
  /\ issued = 0
  /\ expired = <<>>
  /\ early = {}
  /\ eatenSince = 0
  /\ coveredCells = <<>>

\* -------------------------------------------------------------- placement
\* excludePositions.some(p => p.equals(position))
isExcluded(p, excluded) == \E i \in 1 .. Len(excluded) : excluded[i] = p

\* manhattanDistance
manhattanDistance(pos1, pos2) ==
  (IF pos1[1] >= pos2[1] THEN pos1[1] - pos2[1] ELSE pos2[1] - pos1[1])
  + (IF pos1[2] >= pos2[2] THEN pos1[2] - pos2[2] ELSE pos2[2] - pos1[2])

\* The positions a draw of the running function can give.
Draws ==
  IF placing = "area"
    THEN (0 .. BOARD_SIZE - SIZE) \X (0 .. BOARD_SIZE - SIZE)
    ELSE Cells

\* The while condition of the running function's loop, for the position p.
LoopsAgain(p) ==
  CASE placing = "position" -> isExcluded(p, excludeArg)
    [] placing = "area" -> isAreaColliding(p, SIZE, SIZE, excludeArg)
    [] placing = "obstacle" ->
         \/ isExcluded(p, excludeArg)
         \/ \E i \in 1 .. Len(criticalPositions) :
              manhattanDistance(p, criticalPositions[i].position)
                < criticalPositions[i].minDistance
    [] OTHER -> FALSE

\* One iteration of the do-while loop with the draw p: the function returns p
\* when the condition is false, and generateSafeObstaclePosition also when
\* attempts has reached maxAttempts (the break); otherwise it loops.
Iteration(p) ==
  LET counted == IF placing = "obstacle" THEN attempts + 1 ELSE attempts
      break == placing = "obstacle" /\ counted >= maxAttempts
  IN  /\ drawn' = p
      /\ attempts' = counted
      /\ IF break \/ ~LoopsAgain(p)
           THEN placing' = "none" /\ returned' = p
           ELSE UNCHANGED <<placing, returned>>
      /\ UNCHANGED <<excludeArg, criticalPositions, besidesPlacement>>

\* No placement function has been called.
NoPlacement ==
  /\ placing = "none"
  /\ excludeArg = <<>>
  /\ criticalPositions = <<>>
  /\ drawn = NoPosition
  /\ attempts = 0
  /\ returned = NoPosition

\* ------------------------------------------------------------------ speed
\* GameModeService.getConfig
getConfig(mode) ==
  CASE mode = "classic" ->
         [mode |-> "classic", hasWallCollision |-> FALSE, hasSpeedIncrease |-> FALSE,
          speedIncrement |-> 0]
    [] mode = "speed" ->
         [mode |-> "speed", hasWallCollision |-> FALSE, hasSpeedIncrease |-> TRUE,
          speedIncrement |-> 10]
    [] mode = "wall" ->
         [mode |-> "wall", hasWallCollision |-> TRUE, hasSpeedIncrease |-> FALSE,
          speedIncrement |-> 0]

\* Math.max
Max(a, b) == IF a >= b THEN a ELSE b

\* GameModeService.calculateSpeed without the lower limit.
calculateSpeedUnlimited(mode, points) ==
  LET config == getConfig(mode)
  IN  IF ~config.hasSpeedIncrease THEN INITIAL_SPEED
      ELSE INITIAL_SPEED - points * config.speedIncrement

\* GameModeService.calculateSpeed, for the current mode
calculateSpeed(mode, points) ==
  LET config == getConfig(mode)
  IN  IF ~config.hasSpeedIncrease THEN INITIAL_SPEED
      ELSE LET speedReduction == points * config.speedIncrement
               reduced == INITIAL_SPEED - speedReduction
           IN  Max(reduced, MIN_SPEED)

\* New services and a new MovementSystem.
NoScore ==
  /\ score = 0
  /\ moveInterval = INITIAL_SPEED
  /\ newSpeed = NoSpeed

\* ------------------------------------------------------------------ cloud
\* The services' fields as one record, and the step that stores a record back.
Cloud ==
  [scores |-> scores, syncInProgress |-> syncInProgress, rateLimit |-> rateLimit,
   requests |-> requests, cloud |-> cloud, sent |-> sent, now |-> now]

CloudBecomes(c) ==
  /\ scores' = c.scores
  /\ syncInProgress' = c.syncInProgress
  /\ rateLimit' = c.rateLimit
  /\ requests' = c.requests
  /\ cloud' = c.cloud
  /\ sent' = c.sent
  /\ now' = c.now
  /\ UNCHANGED besidesCloud

\* The rows the requests in flight will insert, and those inserted.
RECURSIVE RowsInFlight(_)
RowsInFlight(pending) ==
  IF pending = <<>> THEN 0
  ELSE Len(pending[1].entries) + RowsInFlight(Tail(pending))

RECURSIVE RowsSent(_, _)
RowsSent(f, times) ==
  IF times = {} THEN 0
  ELSE LET t == CHOOSE u \in times : TRUE IN f[t] + RowsSent(f, times \ {t})

\* One of the two tests of SupabaseService.checkRateLimit: it throws.
limitExceeded(item, window, max, t) ==
  /\ item # NoItem
  /\ t - item.timestamp < window
  /\ item.count >= max

\* SupabaseService.checkRateLimit: TRUE when it throws RATE_LIMIT_EXCEEDED
checkRateLimit(c) ==
  \/ limitExceeded(c.rateLimit.minute, MINUTE, MAX_INSERTS_PER_MINUTE, c.now)
  \/ limitExceeded(c.rateLimit.hour, HOUR, MAX_INSERTS_PER_HOUR, c.now)

\* One of the two updates of SupabaseService.updateRateLimit
counted(item, window, t) ==
  IF item # NoItem /\ t - item.timestamp < window
    THEN [count |-> item.count + 1, timestamp |-> item.timestamp]
    ELSE [count |-> 1, timestamp |-> t]

\* SupabaseService.updateRateLimit
updateRateLimit(c) ==
  [c EXCEPT !.rateLimit = [minute |-> counted(c.rateLimit.minute, MINUTE, c.now),
                           hour |-> counted(c.rateLimit.hour, HOUR, c.now)]]

\* this.supabase.from(table).insert(data): the request is sent and awaited
insert(c, method, entries, caller) ==
  [c EXCEPT !.requests =
     Append(@, [method |-> method, entries |-> entries, caller |-> caller])]

\* SupabaseService.syncScore up to its await (the service is available and
\* the entry valid): it throws, or the insert is sent.
syncScore(c, entry, caller) ==
  IF checkRateLimit(c) THEN c
  ELSE insert(c, "syncScore", <<entry>>, caller)

\* SupabaseService.syncScores up to its await: it returns or throws without
\* inserting, or the insert of the whole batch is sent.
syncScores(c, entries, caller) ==
  IF Len(entries) = 0 THEN c
  ELSE IF Len(entries) > MAX_SCORES_PER_SYNC THEN c
  ELSE IF \E i \in 1 .. Len(entries) : checkRateLimit(c) THEN c
  ELSE insert(c, "syncScores", entries, caller)

\* LeaderboardService.markAsSynced
markAsSynced(c, scoreId) ==
  [c EXCEPT !.scores =
     [i \in 1 .. Len(@) |->
        IF @[i].id = scoreId THEN [@[i] EXCEPT !.syncedToCloud = TRUE] ELSE @[i]]]

RECURSIVE markAllAsSynced(_, _)
markAllAsSynced(c, entries) ==
  IF entries = <<>> THEN c
  ELSE markAllAsSynced(markAsSynced(c, entries[1]), Tail(entries))

\* LeaderboardService.addScore (trimScoresByMode keeps every score while there
\* are no more than 20 of a mode) with syncScoreAsync up to its await
addScore(c) ==
  LET id == Len(c.scores) + 1
      pushed == [c EXCEPT !.scores = Append(@, [id |-> id, syncedToCloud |-> FALSE])]
  IN  syncScore(pushed, id, "syncScoreAsync")

\* LeaderboardService.getUnsyncedScores (the entries' ids)
getUnsyncedScores(c) ==
  LET unsynced(entry) == ~entry.syncedToCloud
      kept == SelectSeq(c.scores, unsynced)
  IN  [i \in 1 .. Len(kept) |-> kept[i].id]

\* LeaderboardService.syncAllUnsyncedScores up to its await
syncAllUnsyncedScores(c) ==
  IF c.syncInProgress THEN c
  ELSE LET unsyncedScores == getUnsyncedScores(c)
           called == syncScores(c, unsyncedScores, "syncAllUnsyncedScores")
       IN  IF Len(unsyncedScores) = 0 THEN c
           ELSE IF called.requests = c.requests THEN called
           ELSE [called EXCEPT !.syncInProgress = TRUE]

\* The rows of a successful insert are in the table.
inserted(c, entries) ==
  [c EXCEPT !.cloud = [id \in DOMAIN @ |->
                         @[id] + Cardinality({i \in 1 .. Len(entries) : entries[i] = id})],
            !.sent = [@ EXCEPT ![c.now] = @ + Len(entries)]]

\* The response to the request i arrives, with the rows or with an error: the
\* rest of syncScore or syncScores, then the rest of the method that awaited it.
respond(c, i, ok) ==
  LET request == c.requests[i]
      others == [j \in 1 .. Len(c.requests) - 1 |->
                   IF j < i THEN c.requests[j] ELSE c.requests[j + 1]]
      answered == [c EXCEPT !.requests = others]
      updated == IF ok THEN updateRateLimit(inserted(answered, request.entries))
                 ELSE answered
  IN  CASE request.caller = "syncScoreAsync" ->
             IF ok THEN markAsSynced(updated, request.entries[1]) ELSE updated
        [] request.caller = "syncAllUnsyncedScores" ->
             [(IF ok THEN markAllAsSynced(updated, request.entries) ELSE updated)
                EXCEPT !.syncInProgress = FALSE]
        [] OTHER -> updated

\* New services, an empty table, no item in localStorage.
NoCloud ==
  /\ scores = <<>>
  /\ syncInProgress = FALSE
  /\ rateLimit = [minute |-> NoItem, hour |-> NoItem]
  /\ requests = <<>>
  /\ cloud = [id \in 1 .. MaxEntries |-> 0]
  /\ sent = [t \in Times |-> 0]
  /\ now = 0

\* ----------------------------------------------------------------- entity
\* Map.prototype.set: the value of an entry with the key is replaced where the
\* entry is; a new entry is added at the end.
MapSet(entries, key, value) ==
  IF \E i \in 1 .. Len(entries) : entries[i].key = key
    THEN [i \in 1 .. Len(entries) |->
            IF entries[i].key = key THEN [key |-> key, value |-> value] ELSE entries[i]]
    ELSE Append(entries, [key |-> key, value |-> value])

\* Map.prototype.has
MapHas(entries, key) == \E i \in 1 .. Len(entries) : entries[i].key = key

\* Map.prototype.get: the value of the first entry with the key, or undefined
MapGet(entries, key) ==
  IF MapHas(entries, key)
    THEN entries[CHOOSE i \in 1 .. Len(entries) :
                   /\ entries[i].key = key
                   /\ \A j \in 1 .. i - 1 : entries[j].key # key].value
    ELSE NoComponent

\* Map.prototype.delete
MapDelete(entries, key) ==
  LET kept(entry) == entry.key # key
  IN  SelectSeq(entries, kept)

\* BaseEntity.addComponent that adds an entry whatever the map holds.
addComponentBeside(entries, component) ==
  Append(entries, [key |-> component.type, value |-> component.id])

\* BaseEntity.addComponent
addComponent(entries, component) == MapSet(entries, component.type, component.id)

\* BaseEntity.getComponent
getComponent(entries, type) == MapGet(entries, type)

\* BaseEntity.hasComponent
hasComponent(entries, type) == MapHas(entries, type)

\* BaseEntity.removeComponent
removeComponent(entries, type) == MapDelete(entries, type)

\* new BaseEntity(id)
NoComponents ==
  /\ components = <<>>
  /\ made = 0
  /\ lastAdded = [type \in ComponentTypes |-> NoComponent]
  /\ found = [type |-> "", component |-> NoComponent, has |-> FALSE]

\* ----------------------------------------------------------------- actions
\* The state Game.setupGame builds: a new engine, a snake of one segment at
\* the centre of the board moving right, the food on a free cell.
Setup ==
  /\ state = IDLE
  /\ animationFrameId = NoHandle
  /\ rafQueue = {}
  /\ pendingDirection = NoDirection
  /\ enabled = TRUE
  /\ isSwiping = FALSE
  /\ accumulator = 0
  /\ body = << <<BOARD_SIZE \div 2, BOARD_SIZE \div 2>> >>
  /\ velocity = RIGHT
  /\ shouldGrow = FALSE
  /\ foodPosition \in generateRandomPosition(body)
  /\ isBeingEaten = FALSE
  /\ eatTimer = FALSE
  /\ isPaused = FALSE
  /\ signals = <<>>
  /\ lastMoveDir = NoDirection
  /\ lastEvent = NoDirection
  /\ accumulated = 0
  /\ csSuperFood = NoSuperFood
  /\ superBeingEaten = FALSE
  /\ superEatTimers = 0
  /\ foodCollisions = 0
  /\ superCollisions = 0
  /\ sinceEaten = 0
  /\ NoSuperFoodYet
  /\ NoPlacement
  /\ NoComponents
  /\ NoScore
  /\ NoCloud

Init ==
  /\ Setup
  /\ hasWallCollision \in BOOLEAN
  /\ currentMode = IF hasWallCollision THEN "wall" ELSE "classic"
  /\ obstacles \in {{}, {<<0, BOARD_SIZE \div 2>>}}
  /\ stopsOnGameOver \in BOOLEAN

\* A session of Game in classic or wall mode, as Game.setupGame configures it.
InitPlay ==
  /\ Setup
  /\ hasWallCollision \in BOOLEAN
  /\ currentMode = IF hasWallCollision THEN "wall" ELSE "classic"
  /\ obstacles = {}
  /\ stopsOnGameOver = TRUE

\* engine.start()
Start == Do(start(Cur))

\* Game.startNewGame: Game.setupGame has built a new engine (Setup), which is started.
startNewGame == state = IDLE /\ Do(start(Cur))

\* engine.pause()
Pause == Do(pause(Cur))

\* engine.resume()
Resume == Do(resume(Cur))

\* engine.stop()
Stop == Do(stop(Cur))

\* the pause button, Space or P
TogglePause == Do(togglePause(Cur))

\* InputSystem.handleKeyPress, and the click or touch of a direction button
handleKeyPress(direction) ==
  Do([keyPressed(Cur, direction) EXCEPT !.lastEvent = IF enabled THEN direction ELSE @])

KeyPress == \E direction \in DIRECTIONS : handleKeyPress(direction)

\* The host runs a pending frame callback.
FrameCallback ==
  \E h \in rafQueue, deltaTime \in Deltas :
    Do(loop([Cur EXCEPT !.rafQueue = @ \ {h}], deltaTime))

\* The same callback, keeping what the movement system's accumulator was
\* right after the frame's elapsed time was added to it.
TimedFrame ==
  \E h \in rafQueue, deltaTime \in Deltas :
    Do([loop([Cur EXCEPT !.rafQueue = @ \ {h}], deltaTime) EXCEPT
          !.accumulated = IF state = PLAYING THEN accumulator + deltaTime ELSE @])

\* The 150 ms timer of a food collision fires: Game.handleFoodEaten.
FoodEatenTimer ==
  /\ eatTimer
  /\ \E newPosition \in generateRandomPosition(body) :
       Do(handleFoodEaten(Cur, newPosition))

Next ==
  \/ Start
  \/ Pause
  \/ Resume
  \/ Stop
  \/ TogglePause
  \/ KeyPress
  \/ FrameCallback
  \/ FoodEatenTimer

\* Every handler, from every configuration.
Spec == Init /\ [][Next]_vars

\* A session as Game runs it, without pauses: the keys, the frames, the food timer.
NextPlay ==
  \/ startNewGame
  \/ KeyPress
  \/ FrameCallback
  \/ FoodEatenTimer

\* The session in classic mode (the snake wraps around the board) ...
InitClassic == InitPlay /\ hasWallCollision = FALSE

SpecClassic == InitClassic /\ [][NextPlay]_vars

\* ... and in wall mode (leaving the board ends the game).
InitWall == InitPlay /\ hasWallCollision = TRUE

SpecWall == InitWall /\ [][NextPlay]_vars

\* A session whose frames keep their accumulated time, on a snake that is
\* steered up or down only.
VerticalKeyPress == \E direction \in {UP, DOWN} : handleKeyPress(direction)

NextMovement ==
  \/ startNewGame
  \/ VerticalKeyPress
  \/ TimedFrame
  \/ FoodEatenTimer

SpecMovement == InitPlay /\ [][NextMovement]_vars

\* A session of a snake steered up or down only; the host runs a timer that
\* is due.
NextEating ==
  \/ startNewGame
  \/ VerticalKeyPress
  \/ FrameCallback
  \/ FoodEatenTimer

SpecEating == InitPlay /\ [][NextEating]_vars /\ WF_vars(FoodEatenTimer)

\* The draws of a generator taken in a session: among the first FoodChoices
\* of the positions it can return, row by row.
FirstDrawn(positions) ==
  {p \in positions :
     Cardinality({q \in positions : q[2] * BOARD_SIZE + q[1] < p[2] * BOARD_SIZE + p[1]})
       < FoodChoices}

\* superFoodService.spawn(snake.body, food.position, now) while no superfood
\* is active, and the superfood it returns given to collisionSystem.setSuperFood.
SetSuperFood ==
  /\ issued < MaxSpawns
  /\ ~active
  /\ \E position \in FirstDrawn(generateRandomTopLeftArea(SIZE, SIZE,
                                                          Append(body, foodPosition))) :
       /\ Stores([Cur EXCEPT !.csSuperFood = position, !.superBeingEaten = FALSE])
       /\ ServiceStores(spawn(Service, position))
       /\ UNCHANGED <<placementVars, entityVars, speedVars, cloudVars>>

\* A session on a board with an obstacle, whose collision system is given a
\* superfood; the snake is steered up or down only.
NextCollision ==
  \/ startNewGame
  \/ VerticalKeyPress
  \/ FrameCallback
  \/ FoodEatenTimer
  \/ SetSuperFood

InitCollision ==
  /\ Setup
  /\ hasWallCollision = FALSE
  /\ currentMode = "classic"
  /\ obstacles = {<<0, BOARD_SIZE \div 2>>}
  /\ stopsOnGameOver = TRUE

SpecCollision == InitCollision /\ [][NextCollision]_vars

\* The 150 ms timer of a superfood collision fires: onSuperFoodEaten. Its
\* receiver ends the superfood: the service despawns it and the collision
\* system is given none.
SuperFoodEatenTimer ==
  /\ superEatTimers > 0
  /\ Stores([Cur EXCEPT !.superEatTimers = @ - 1, !.csSuperFood = NoSuperFood])
  /\ ServiceStores(despawnEarly(Service))
  /\ UNCHANGED <<placementVars, entityVars, speedVars, cloudVars>>

\* The expiry timer of SuperFoodService.spawn fires: despawn and onExpired,
\* whose receiver gives the collision system no superfood.
SuperFoodExpired ==
  \E id \in timers :
    /\ ServiceStores(expire(Service, id))
    /\ Stores([Cur EXCEPT !.csSuperFood = NoSuperFood])
    /\ UNCHANGED <<placementVars, entityVars, speedVars, cloudVars>>

\* A session with superfoods, their collision timer and their expiry timer.
NextEnding ==
  \/ startNewGame
  \/ VerticalKeyPress
  \/ FrameCallback
  \/ FoodEatenTimer
  \/ SetSuperFood
  \/ SuperFoodEatenTimer
  \/ SuperFoodExpired

SpecEnding == InitCollision /\ [][NextEnding]_vars

\* The same session with the snake steered down or left only.
DownLeftKeyPress == \E direction \in {DOWN, LEFT} : handleKeyPress(direction)

NextItems ==
  \/ startNewGame
  \/ DownLeftKeyPress
  \/ FrameCallback
  \/ FoodEatenTimer
  \/ SetSuperFood

SpecItems == InitCollision /\ [][NextItems]_vars

\* A session on a board with an obstacle in its first corner, the collision
\* system's game-over callback being one that does not stop the engine; the
\* player steers up and left.
InitCorner ==
  /\ Setup
  /\ hasWallCollision = FALSE
  /\ currentMode = "classic"
  /\ obstacles = {<<0, 0>>}
  /\ stopsOnGameOver = FALSE

UpLeftKeyPress == \E direction \in {UP, LEFT} : handleKeyPress(direction)

NextCrossing ==
  \/ startNewGame
  \/ UpLeftKeyPress
  \/ FrameCallback
  \/ FoodEatenTimer

SpecCrossing == InitCorner /\ [][NextCrossing]_vars

\* A session in speed mode whose frames come SlowFrame ms apart, a little less
\* than the delay of the food timer; the player steers up and left.
InitFast ==
  /\ Setup
  /\ currentMode = "speed"
  /\ hasWallCollision = getConfig(currentMode).hasWallCollision
  /\ obstacles = {}
  /\ stopsOnGameOver = TRUE

SlowFrame == EAT_DELAY - 10

SteerUpLeft ==
  \E direction \in {UP, LEFT} :
    Becomes([keyPressed(Cur, direction) EXCEPT !.lastEvent = IF enabled THEN direction ELSE @])

\* The host runs a pending frame callback SlowFrame ms after the last one. A
\* food timer that is due by then has fired before.
SlowFrameCallback ==
  /\ eatTimer => sinceEaten + SlowFrame < EAT_DELAY
  /\ \E h \in rafQueue :
       LET after == loop([Cur EXCEPT !.rafQueue = @ \ {h}], SlowFrame)
           since == IF ~after.eatTimer \/ state # PLAYING THEN sinceEaten
                    ELSE IF after.foodCollisions # foodCollisions THEN 0
                    ELSE sinceEaten + SlowFrame
       IN  /\ Len(after.body) <= MaxLong
           /\ Cardinality(after.rafQueue) <= MaxPending
           /\ Becomes([after EXCEPT !.sinceEaten = since])

\* The 150 ms timer of a food collision fires: Game.handleFoodEaten increments
\* the score (the movement system is given the speed of the new score) and
\* relocates the food.
ScoredFoodEaten ==
  /\ eatTimer
  /\ score < MaxScore
  /\ \E newPosition \in generateRandomPosition(body) :
       Stores([handleFoodEaten(Cur, newPosition) EXCEPT !.sinceEaten = 0])
  /\ score' = score + 1
  /\ moveInterval' = IF getConfig(currentMode).hasSpeedIncrease
                       THEN calculateSpeed(currentMode, score')
                       ELSE moveInterval
  /\ UNCHANGED <<currentMode, newSpeed, superFoodVars, placementVars, entityVars, cloudVars>>

NextScore ==
  \/ startNewGame
  \/ SteerUpLeft
  \/ SlowFrameCallback
  \/ ScoredFoodEaten

SpecScore == InitFast /\ [][NextScore]_vars

\* The engine's API called in any order, and the frames, on a snake nobody steers.
NextEngine ==
  \/ Start
  \/ Pause
  \/ Resume
  \/ Stop
  \/ TogglePause
  \/ FrameCallback

SpecEngine == Init /\ [][NextEngine]_vars

\* A session that is paused and resumed while keys arrive; no food timer fires
\* (the food stays on the first cell the generator can draw).
NextPause ==
  \/ startNewGame
  \/ Pause
  \/ Resume
  \/ KeyPress
  \/ FrameCallback

InitPause == InitPlay /\ foodPosition = <<0, 0>>

SpecPause == InitPause /\ [][NextPause]_vars

\* A finger touches the canvas ...
TouchStart == Do(handleTouchStart(Cur))

\* ... and leaves it, after a swipe in a direction or a gesture too short for one.
TouchEnd ==
  \E swipe \in DIRECTIONS \cup {NoDirection} :
    Do([handleTouchEnd(Cur, swipe) EXCEPT
          !.lastEvent = IF enabled /\ isSwiping /\ swipe # NoDirection THEN swipe ELSE @])

\* A session the player pauses and resumes with the pause button while keys
\* (or buttons) and swipes arrive; no food timer fires.
NextInput ==
  \/ startNewGame
  \/ TogglePause
  \/ KeyPress
  \/ TouchStart
  \/ TouchEnd
  \/ FrameCallback

\* The session in classic mode whose first food is in the board's first corner.
InitInput == InitClassic /\ foodPosition = <<0, 0>>

\* A session of a snake steered in every direction; no food timer fires.
NextWrap ==
  \/ startNewGame
  \/ KeyPress
  \/ FrameCallback

SpecWrap == InitInput /\ [][NextWrap]_vars

SpecInput == InitInput /\ [][NextInput]_vars

\* superFoodService.onNormalEaten()
OnNormalEaten ==
  /\ normalEatenCounter < MaxEaten
  /\ ServiceBecomes(onNormalEaten(Service))

\* What generateValidPosition can return for a snake of one segment and a food
\* anywhere on the board.
SpawnPositions ==
  {position \in Cells :
     \E segment \in Cells, food \in Cells :
       position \in generateRandomTopLeftArea(SIZE, SIZE, <<segment, food>>)}

\* superFoodService.spawn(snakeBody, foodPosition, currentTime)
Spawn ==
  /\ issued < MaxSpawns
  /\ \E position \in SpawnPositions : ServiceBecomes(spawn(Service, position))

\* superFoodService.despawn(), as when the superfood was eaten
Despawn == ServiceBecomes(despawnEarly(Service))

\* superFoodService.reset()
Reset == ServiceBecomes(reset(Service))

\* The host runs the expiry timer's callback after LIFETIME_MS.
ExpireTimer == \E id \in timers : ServiceBecomes(expire(Service, id))

\* superFood.getCoveredCells() on the active superfood
GetCoveredCells ==
  /\ superFood # NoSuperFood
  /\ coveredCells' = getCoveredCells(superFood)
  /\ UNCHANGED <<active, superFood, normalEatenCounter, expireTimeout, timers, issued,
                 expired, early, eatenSince, besidesSuperFood>>

\* The superfood service driven by its callers in any order, and its timer.
NextSuperFood ==
  \/ OnNormalEaten
  \/ Spawn
  \/ Despawn
  \/ Reset
  \/ ExpireTimer
  \/ GetCoveredCells

\* The session the service belongs to has been set up and is not running.
InitService == InitClassic /\ foodPosition = <<0, 0>>

SpecSuperFood == InitService /\ [][NextSuperFood]_vars

\* The host runs every timer callback that stays pending.
SpecSuperFoodFair == SpecSuperFood /\ WF_vars(ExpireTimer)

\* The first n cells of the board, row by row: the occupied cells of a request.
FirstCells(n) ==
  [k \in 1 .. n |-> <<(k - 1) % BOARD_SIZE, (k - 1) \div BOARD_SIZE>>]

\* The critical positions of a request for an obstacle: none, or the centre of
\* the board with a distance that leaves cells free, or with one that leaves none.
Criticals ==
  {<<>>} \cup
  {<<[position |-> <<BOARD_SIZE \div 2, BOARD_SIZE \div 2>>, minDistance |-> d]>> :
     d \in {2, 2 * BOARD_SIZE}}

\* A caller asks for a position: food (generateRandomPosition), the top-left
\* cell of a superfood (generateRandomTopLeftArea) or an obstacle
\* (generateSafeObstaclePosition), with any number of cells occupied.
RequestPlacement ==
  /\ placing = "none"
  /\ \E kind \in {"position", "area", "obstacle"},
        n \in 0 .. BOARD_SIZE * BOARD_SIZE, critical \in Criticals :
       /\ placing' = kind
       /\ excludeArg' = FirstCells(n)
       /\ criticalPositions' = IF kind = "obstacle" THEN critical ELSE <<>>
  /\ drawn' = NoPosition
  /\ attempts' = 0
  /\ returned' = NoPosition
  /\ UNCHANGED besidesPlacement

\* An iteration whose draw the loop's condition accepts ...
AttemptAccepted ==
  /\ placing # "none"
  /\ \E p \in Draws : ~LoopsAgain(p) /\ Iteration(p)

\* ... and one whose draw it rejects.
AttemptRejected ==
  /\ placing # "none"
  /\ \E p \in Draws : LoopsAgain(p) /\ Iteration(p)

NextPlacement ==
  \/ RequestPlacement
  \/ AttemptAccepted
  \/ AttemptRejected

SpecPlacement == InitService /\ [][NextPlacement]_vars

\* A running loop goes on iterating, and Math.random does not avoid the
\* acceptable positions for ever: where an iteration can accept again and
\* again, one does.
SpecPlacementFair ==
  /\ SpecPlacement
  /\ WF_vars(AttemptAccepted \/ AttemptRejected)
  /\ SF_vars(AttemptAccepted)

\* entity.addComponent(new C(...)) for a component class C of some type
AddComponent ==
  /\ made < MaxComponents
  /\ \E type \in ComponentTypes :
       /\ components' = addComponent(components, [type |-> type, id |-> made + 1])
       /\ lastAdded' = [lastAdded EXCEPT ![type] = made + 1]
  /\ made' = made + 1
  /\ UNCHANGED <<found, besidesEntity>>

\* entity.removeComponent(type)
RemoveComponent ==
  /\ \E type \in ComponentTypes :
       /\ components' = removeComponent(components, type)
       /\ lastAdded' = [lastAdded EXCEPT ![type] = NoComponent]
  /\ UNCHANGED <<made, found, besidesEntity>>

\* entity.getComponent(type) and entity.hasComponent(type)
GetComponent ==
  /\ \E type \in ComponentTypes :
       found' = [type |-> type, component |-> getComponent(components, type),
                 has |-> hasComponent(components, type)]
  /\ UNCHANGED <<components, made, lastAdded, besidesEntity>>

\* An entity whose components are added, removed and looked up in any order.
NextEntity ==
  \/ AddComponent
  \/ RemoveComponent
  \/ GetComponent

SpecEntity == InitInput /\ [][NextEntity]_vars

\* scoreService.increment(), in Game.handleFoodEaten
ScoreIncrement ==
  /\ score < MaxScore
  /\ score' = score + 1
  /\ UNCHANGED <<currentMode, moveInterval, newSpeed, besidesSpeed>>

\* gameModeService.calculateSpeed(scoreService.getScore())
CalculateSpeed ==
  /\ newSpeed' = calculateSpeed(currentMode, score)
  /\ UNCHANGED <<currentMode, score, moveInterval, besidesSpeed>>

\* The callback Game.setupGame registers when the mode has a speed increase:
\* it sets the movement system's speed to what calculateSpeed returns for
\* the score.  It can run after any score event.
OnScoreIncrement ==
  /\ getConfig(currentMode).hasSpeedIncrease
  /\ newSpeed' = calculateSpeed(currentMode, score)
  /\ moveInterval' = newSpeed'
  /\ UNCHANGED <<currentMode, score, besidesSpeed>>

NextSpeed ==
  \/ ScoreIncrement
  \/ CalculateSpeed
  \/ OnScoreIncrement

\* A session in any of the three modes, as Game.setupGame configures it.
InitSpeed ==
  /\ Setup
  /\ foodPosition = <<0, 0>>
  /\ currentMode \in GameModes
  /\ hasWallCollision = getConfig(currentMode).hasWallCollision
  /\ obstacles = {}
  /\ stopsOnGameOver = TRUE

\* The score events of a session and the speed that follows them.
SpecSpeed == InitSpeed /\ [][NextSpeed]_vars

\* A request for rows more can be sent within the model's bounds.
CanSend(rows) ==
  /\ Len(requests) < MaxInFlight
  /\ RowsSent(sent, Times) + RowsInFlight(requests) + rows <= MaxRows

\* supabaseService.syncScore(entry)
SyncScore ==
  /\ CanSend(1)
  /\ CloudBecomes(syncScore(Cloud, 1, "none"))

\* supabaseService.syncScores(entries), the entries the first n
SyncScores ==
  \E n \in 0 .. MaxEntries :
    /\ CanSend(n)
    /\ CloudBecomes(syncScores(Cloud, [i \in 1 .. n |-> i], "none"))

\* The response to a pending insert arrives.
InsertResponse ==
  \E i \in 1 .. Len(requests), ok \in BOOLEAN : CloudBecomes(respond(Cloud, i, ok))

\* Time passes.
Tick ==
  /\ now + TickStep \in Times
  /\ CloudBecomes([Cloud EXCEPT !.now = @ + TickStep])

\* The supabase service called by any callers, concurrently.
NextRate ==
  \/ SyncScore
  \/ SyncScores
  \/ InsertResponse
  \/ Tick

SpecRate == InitInput /\ [][NextRate]_vars

\* leaderboardService.addScore(player, score, mode), in Game.handleGameOver
AddScore ==
  /\ Len(scores) < MaxEntries
  /\ CanSend(1)
  /\ CloudBecomes(addScore(Cloud))

\* syncAllUnsyncedScores(), by the timer of autoSync or by a caller
SyncAllUnsyncedScores ==
  /\ CanSend(Len(getUnsyncedScores(Cloud)))
  /\ CloudBecomes(syncAllUnsyncedScores(Cloud))

\* The leaderboard: scores are added and synchronised in the background.
NextSync ==
  \/ AddScore
  \/ SyncAllUnsyncedScores
  \/ InsertResponse
  \/ Tick

SpecSync == InitInput /\ [][NextSync]_vars

\* ------------------------------------------------------------------ claims
\* The outcome signals and the system updates a run of update recorded.
Has(what) == \E i \in 1 .. Len(signals) : signals[i] = what
HasNext(what) == \E i \in 1 .. Len(signals') : signals'[i] = what
CountNext(what) == Cardinality({i \in 1 .. Len(signals') : signals'[i] = what})
\* A step that commits a move changes the body (the board has more than one cell).
Moved == body' # body

\* C1: the direction used by a committed move is never the negation of the
\* direction used by the previous committed move, and a snake of length >= 3
\* never moves its head onto its neck.
C1_NoReversal ==
  [][Moved => /\ ~isOpposite(velocity', lastMoveDir)
              /\ (Len(body) >= 3 => body'[1] # body[2])]_vars

\* C2: a committed move keeps the body's length when growth was not pending
\* and adds one segment when it was; the move then clears the flag (it is set
\* after the move only if the same frame's collision check found food).
C2_MoveLength ==
  [][Moved => /\ Len(body') = Len(body) + (IF shouldGrow THEN 1 ELSE 0)
              /\ (shouldGrow /\ shouldGrow' => HasNext("food"))]_vars

\* C2's case: a move made with growth pending has just added a segment.
C2_Grown == Len(body) = 2 /\ Has("move") /\ ~shouldGrow /\ state = PLAYING

\* C3: at most one scheduled frame callback is pending at any time.
C3_AtMostOnePending == Cardinality(rafQueue) <= 1

\* C4: once stop() has returned (the state is GameOver) no scheduled frame
\* callback remains pending, also when a callback called stop() inside a frame.
C4_StoppedNothingPending == state = GAME_OVER => rafQueue = {}

\* C5: the engine becomes Paused only from Playing: pause() in Idle, Paused
\* or GameOver leaves the state unchanged.
C5_PausedOnlyFromPlaying ==
  [][Pause => IF state = PLAYING THEN state' = PAUSED ELSE state' = state]_vars

\* C6: start() while Playing or Paused is a no-op; from Idle or GameOver it
\* moves the engine to Playing.
C6_StartOnlyFromIdleOrGameOver ==
  [][Start => IF state \in {PLAYING, PAUSED}
                THEN UNCHANGED vars
                ELSE state' = PLAYING \/ HasNext("stop")]_vars

\* C7: resume() in Idle, Playing or GameOver changes nothing and runs no
\* system update; in Paused it makes the engine Playing, runs a frame and
\* leaves a frame callback scheduled (the engine is not Playing afterwards only
\* if that frame's outcome callback stopped it).
C7_ResumeOnlyFromPaused ==
  [][Resume => IF state # PAUSED
                 THEN UNCHANGED vars
                 ELSE /\ animationFrameId' \in rafQueue'
                      /\ HasNext("input")
                      /\ state' = PLAYING \/ (state' = GAME_OVER /\ HasNext("stop"))]_vars

\* C7's case: a resumed engine is Playing with the frame callback resume()
\* scheduled beside the one that was pending when the engine was paused.
C7_Resumed == state = PLAYING /\ Cardinality(rafQueue) = 2

\* C8: while the engine is Paused no frame callback and no input event changes
\* the snake's body, its velocity or the movement accumulator.
C8_PausedFreezes ==
  [][state = PAUSED /\ state' = PAUSED => UNCHANGED <<body, velocity, accumulator>>]_vars

\* C8's case: the engine is Paused in mid-interval, the frame callback that was
\* pending has fired and a key has been pressed since.
C8_PausedWithInput ==
  /\ state = PAUSED
  /\ rafQueue = {}
  /\ pendingDirection # NoDirection
  /\ accumulator > 0

\* A run of update raised game-over or wall-collision in this step.
RaisedNow == signals' # signals /\ (HasNext("gameOver") \/ HasNext("wallCollision"))

\* C9 as stated: once game-over or wall-collision has been raised the engine
\* is in GameOver, whatever the registered callback does.
C9_SignalEndsGame == [][RaisedNow => state' = GAME_OVER]_vars

\* C9 as amended: the engine is in GameOver after the signal exactly when the
\* registered callback calls stop(); on a GameOver engine a frame callback (any
\* step but a call of start()) runs no system update and commits no move.
C9_SignalEndsGameIfStopped ==
  [][/\ RaisedNow => (state' = GAME_OVER <=> stopsOnGameOver)
     /\ state = GAME_OVER /\ ~Start =>
          UNCHANGED <<body, velocity, accumulator, signals>>]_vars

\* C9's case: the callback ignored the signal and the engine is still Playing.
C9_IgnoredSignal ==
  /\ ~stopsOnGameOver
  /\ state = PLAYING
  /\ Has("gameOver") \/ Has("wallCollision")

\* The frame callback h run after deltaTime is a movement tick whose candidate
\* head lies outside the board, in wall mode.
WallTick(h, deltaTime) ==
  LET s == InputUpdate([Cur EXCEPT !.rafQueue = @ \ {h}])
  IN  /\ state = PLAYING
      /\ hasWallCollision
      /\ accumulator + deltaTime >= INITIAL_SPEED
      /\ checkWallCollision(PositionAdd(head(s), s.velocity))
      /\ Becomes(loop([Cur EXCEPT !.rafQueue = @ \ {h}], deltaTime))

\* C10: in wall mode a tick whose candidate head is outside the board raises
\* wall-collision exactly once and commits no move: the body and the
\* growth-pending flag are as before, nothing is wrapped.
C10_WallTick ==
  [][\A h \in rafQueue, deltaTime \in Deltas :
       WallTick(h, deltaTime) =>
         /\ CountNext("wallCollision") = 1
         /\ ~HasNext("move")
         /\ body' = body
         /\ shouldGrow' = shouldGrow]_vars

\* C10's case: a snake with growth pending ran into the wall.
C10_HitWall ==
  /\ hasWallCollision
  /\ Has("wallCollision")
  /\ shouldGrow
  /\ state = GAME_OVER

\* C11: in wrap mode every cell of the snake's body is on the board after any
\* committed move: 0 <= x < BOARD_SIZE and 0 <= y < BOARD_SIZE.
C11_OnBoard == ~hasWallCollision => \A i \in 1 .. Len(body) : body[i] \in Cells

\* C11's case: a move to the right from the last column has put the head in
\* the first column.
C11_Wrapped ==
  /\ ~hasWallCollision
  /\ Has("move")
  /\ lastMoveDir = RIGHT
  /\ Len(body) >= 2
  /\ body[1][1] = 0
  /\ body[2][1] = BOARD_SIZE - 1

\* The head has moved onto the food in this step: the food starts being eaten.
Ate == ~isBeingEaten /\ isBeingEaten'

\* C12 as stated: the tick that eats sets the flag and leaves the length as
\* it was before the tick; the next committed move adds one segment and leaves
\* the flag cleared.
C12_GrowthLatency ==
  [][/\ Ate => shouldGrow' /\ Len(body') = Len(body)
     /\ Moved /\ shouldGrow => Len(body') = Len(body) + 1 /\ ~shouldGrow']_vars

\* C12 as amended: the tick that eats sets the flag and adds no segment for
\* this food (the length grows on that tick only by the segment of a food eaten
\* on the tick before); the next committed move adds exactly one segment and
\* clears the flag, which is set again on that tick only by eating again.
C12_GrowthLatencyPerFood ==
  [][/\ Ate => /\ shouldGrow'
               /\ HasNext("food")
               /\ Len(body') = Len(body) + (IF shouldGrow THEN 1 ELSE 0)
     /\ Moved /\ shouldGrow => /\ Len(body') = Len(body) + 1
                               /\ HasNext("grown")
                               /\ shouldGrow' => Ate]_vars

\* C12's case: the move that added the segment of the last food has put the
\* head on the next food.
C12_AteAgain ==
  /\ Has("grown")
  /\ Has("food")
  /\ shouldGrow
  /\ isBeingEaten
  /\ Len(body) = 2

\* The step commits a move that puts the head on the cell the tail had before.
OntoTail == Moved /\ body'[1] = body[Len(body)]

\* C13 as stated: a move made with growth pending whose head lands on the cell
\* that was the tail before the move raises no game-over on that tick.
C13_KeptTailNoGameOver == [][OntoTail /\ shouldGrow => ~HasNext("gameOver")]_vars

\* C13 as amended: a move made with growth pending keeps the tail, so a head
\* that lands on the former tail's cell is on an occupied cell and game-over
\* is raised on that tick.
C13_KeptTailGameOver ==
  [][OntoTail /\ shouldGrow => /\ body'[Len(body')] = body[Len(body)]
                               /\ Len(body') = Len(body) + 1
                               /\ HasNext("gameOver")]_vars

\* C13's case: the snake grew onto its own tail and the game is over.
C13_GrewOntoTail ==
  /\ Has("grown")
  /\ Has("ontoTail")
  /\ Has("gameOver")
  /\ body[1] = body[Len(body)]
  /\ state = GAME_OVER

\* C14: a move made without growth pending whose head lands on the cell that
\* was the tail before the move raises no game-over on that tick: the move
\* has removed the tail before the collision check runs.
C14_VacatedTailNoGameOver ==
  [][OntoTail /\ ~shouldGrow => /\ ~HasNext("gameOver")
                                /\ \A i \in 2 .. Len(body') : body'[i] # body'[1]
                                /\ state' = PLAYING]_vars

\* C14's case: the head is on the cell the tail has just left and the game goes on.
C14_OnVacatedTail ==
  /\ Has("ontoTail")
  /\ ~Has("grown")
  /\ Len(body) = 3
  /\ state = PLAYING

\* C15: after every frame's collision check, game-over has been raised for a
\* self-collision if and only if the head's cell equals the cell of a body
\* segment of index >= 1 (0-based) of the body as the movement left it.
C15_SelfCollisionIff ==
  Has("collision") =>
    (Has("gameOver") <=> \E i \in 2 .. Len(body) : body[i] = body[1])

\* C15's case: the head of a snake of three segments moved onto its second
\* segment and game-over was raised.
C15_HeadOnSecondSegment ==
  /\ Has("gameOver")
  /\ Has("move")
  /\ ~Has("grown")
  /\ Len(body) = 3
  /\ body[1] = body[3]

\* C16: one run of InputSystem.update never sets the velocity to the negation
\* of the value it had before the run; a pending direction that is the
\* negation leaves the velocity unchanged.
C16_CommitNeverNegates ==
  [][/\ ~isOpposite(velocity', velocity)
     /\ velocity' # velocity =>
          velocity' = pendingDirection /\ ~isOpposite(velocity, pendingDirection)
     /\ isOpposite(velocity, pendingDirection) => velocity' = velocity]_vars

\* C16's case: a snake of two segments is moving, the pending direction is the
\* negation of its velocity and a frame callback is scheduled: every frame
\* run in this state refuses the direction.
C16_OppositeRefused ==
  /\ state = PLAYING
  /\ rafQueue # {}
  /\ pendingDirection # NoDirection
  /\ isOpposite(velocity, pendingDirection)
  /\ lastMoveDir = velocity
  /\ Len(body) = 2

\* C17: for every anchor, getCoveredCells returns exactly SIZE * SIZE pairwise
\* distinct cells, the cells (ax + i, ay + j) with 0 <= i, j < SIZE: the square
\* whose top-left cell is the anchor.
C17_CoveredSquare ==
  [][GetCoveredCells =>
       /\ Len(coveredCells') = SIZE * SIZE
       /\ \A i, j \in 1 .. Len(coveredCells') :
            i # j => coveredCells'[i] # coveredCells'[j]
       /\ {coveredCells'[i] : i \in 1 .. Len(coveredCells')}
            = {<<superFood[1] + i, superFood[2] + j>> : i, j \in 0 .. SIZE - 1}]_vars

\* C17's case: the cells of the superfood in the board's last corner were asked for.
C17_CornerCovered ==
  /\ superFood = <<BOARD_SIZE - SIZE, BOARD_SIZE - SIZE>>
  /\ Len(coveredCells) = SIZE * SIZE
  /\ coveredCells[1] = superFood
  /\ coveredCells[SIZE * SIZE] = <<BOARD_SIZE - 1, BOARD_SIZE - 1>>

\* The superfood whose expiry timer has the id k is active.
Live(k) == active /\ expireTimeout = k
\* How many times onExpired was called for the superfood k.
ExpiredCalls(k) == Cardinality({i \in 1 .. Len(expired) : expired[i] = k})

\* C18: every spawned superfood is eventually despawned; one that the timer
\* despawned had onExpired called once, one that a call despawned earlier
\* (despawn, reset, a new spawn) had its timer cancelled and onExpired never
\* called; at most one expiry timer is pending, and one is pending exactly
\* when a superfood is active.
C18_SuperFoodLifetime ==
  /\ \A k \in 1 .. MaxSpawns : Live(k) ~> ~Live(k)
  /\ [](\A k \in 1 .. issued :
          \/ Live(k) /\ k \notin early /\ ExpiredCalls(k) = 0
          \/ ~Live(k) /\ k \in early /\ ExpiredCalls(k) = 0 /\ k \notin timers
          \/ ~Live(k) /\ k \notin early /\ ExpiredCalls(k) = 1 /\ k \notin timers)
  /\ [](Cardinality(timers) <= 1)
  /\ [](active <=> timers # {})
  /\ [](active => timers = {expireTimeout} /\ superFood # NoSuperFood)

\* C18's case: one superfood was despawned by its timer, a later one by a call.
C18_ExpiredAndEarly ==
  /\ ~active
  /\ timers = {}
  /\ expired = <<1>>
  /\ early = {2}

\* C19: shouldSpawn(mode) is true if and only if no superfood is active, the
\* mode is classic or wall, and at least SPAWN_EVERY_NORMALS normal foods were
\* eaten since the last spawn or reset; spawn() resets the counter to 0; of the
\* superfoods spawned so far at most one is active (not yet despawned by a call
\* or by its timer).
C19_ShouldSpawn ==
  /\ [](\A mode \in GameModes :
          shouldSpawn(Service, mode) <=>
            /\ ~active
            /\ mode \in {"classic", "wall"}
            /\ eatenSince >= SPAWN_EVERY_NORMALS)
  /\ [][Spawn => normalEatenCounter' = 0 /\ active']_vars
  /\ [](issued - Cardinality(early) - Len(expired) = IF active THEN 1 ELSE 0)

\* C19's case: a superfood was spawned and is gone, and enough normal foods
\* were eaten since for the next one.
C19_DueAgain ==
  /\ issued = 1
  /\ ~active
  /\ normalEatenCounter = SPAWN_EVERY_NORMALS
  /\ shouldSpawn(Service, "wall")
  /\ ~shouldSpawn(Service, "speed")

\* C20: every placement request (food position, superfood top-left cell,
\* obstacle position) terminates and returns a position, also when the
\* occupied cells leave no free cell or no free area.
C20_PlacementReturns ==
  \A kind \in {"position", "area", "obstacle"} :
    (placing = kind) ~> (placing = "none" /\ returned # NoPosition)

\* C21: the food is never placed on the snake: at session start and at every
\* relocation (the step in which the pending food timer fires) the chosen cell
\* is on the board and differs from every cell of the snake's body at the
\* moment of placement.
C21_FoodOffSnake ==
  /\ foodPosition \in Cells /\ ~isExcluded(foodPosition, body)
  /\ [][eatTimer /\ ~eatTimer' =>
          foodPosition' \in Cells /\ ~isExcluded(foodPosition', body)]_vars

\* C21's case: the food eaten by a snake of two segments has been relocated
\* before the snake moved again.
C21_Relocated ==
  /\ Len(body) = 2
  /\ shouldGrow
  /\ ~isBeingEaten
  /\ ~eatTimer
  /\ ~isExcluded(foodPosition, body)

\* C22: disable() clears the pending direction; while the input system is
\* disabled no key, button or swipe event sets a pending direction and no run
\* of update() changes the velocity; at enable() nothing is pending, so no
\* direction entered while disabled takes effect afterwards.
C22_DisabledIgnoresInput ==
  /\ [](~enabled => pendingDirection = NoDirection)
  /\ [][enabled /\ ~enabled' => pendingDirection' = NoDirection]_vars
  /\ [][~enabled => velocity' = velocity]_vars
  /\ [][~enabled /\ enabled' => pendingDirection' = NoDirection]_vars

\* C22's case: the session was paused with a direction pending, which
\* disable() cleared, and a key or a swipe has arrived since and was ignored.
C22_IgnoredWhileDisabled ==
  /\ ~enabled
  /\ state = PAUSED
  /\ Has("cleared")
  /\ Has("ignored")
  /\ pendingDirection = NoDirection

\* C23: the input system holds one pending direction, that of the most
\* recent event received while enabled: whatever sequence of key, button and
\* swipe events arrived since the last run of update(), the pending direction
\* is the direction of the last of them (none if none arrived or the last was
\* consumed or cleared), and a run of update() that changes the velocity sets
\* it to that direction and leaves none pending.
C23_LatestWins ==
  /\ [](pendingDirection = lastEvent)
  /\ [][velocity' # velocity =>
          velocity' = lastEvent /\ pendingDirection' = NoDirection]_vars

\* C23's case: a swipe has replaced a direction that was pending, and a frame
\* is scheduled that will consume the swipe's direction.
C23_Overwritten ==
  /\ Has("overwrote")
  /\ enabled
  /\ state = PLAYING
  /\ rafQueue # {}
  /\ lastEvent # NoDirection
  /\ ~isOpposite(velocity, pendingDirection)

\* C24: after any sequence of addComponent/removeComponent calls the entity
\* holds at most one component per type; getComponent(type) returns the
\* component of that type added last, or nothing when it was removed since
\* (or none was added); hasComponent(type) is true exactly when
\* getComponent(type) returns a component; removing an absent type changes
\* nothing.
C24_OnePerType ==
  /\ [](\A i, j \in 1 .. Len(components) :
          components[i].key = components[j].key => i = j)
  /\ [](\A type \in ComponentTypes :
          /\ getComponent(components, type) = lastAdded[type]
          /\ hasComponent(components, type) <=>
               getComponent(components, type) # NoComponent)
  /\ [][GetComponent =>
          /\ found'.component = lastAdded[found'.type]
          /\ found'.has <=> found'.component # NoComponent]_vars
  /\ [][\A type \in ComponentTypes :
          /\ ~hasComponent(components, type)
          /\ components' = removeComponent(components, type)
          /\ UNCHANGED made
          => UNCHANGED components]_vars

\* C24's case: a component replaced another of its type and was looked up,
\* and a type that was added and removed was looked up after it.
C24_ReplacedAndRemoved ==
  /\ made = 3
  /\ Len(components) = 1
  /\ getComponent(components, "Velocity") = 2
  /\ lastAdded["Collidable"] = NoComponent
  /\ found = [type |-> "Collidable", component |-> NoComponent, has |-> FALSE]

\* C25: the movement interval is never zero, negative or below the 50 ms
\* minimum; for every score >= 0 calculateSpeed returns max(200 - 10 * score,
\* 50) in speed mode and 200 in classic and wall modes, and no sequence of
\* score events makes MovementSystem.moveInterval fall below 50.
C25_IntervalAtLeastMinimum ==
  /\ [](moveInterval > 0 /\ moveInterval >= 50)
  /\ [](newSpeed # NoSpeed => newSpeed >= 50)
  /\ [][newSpeed' # newSpeed =>
          newSpeed' = IF currentMode = "speed"
                        THEN (IF 200 - 10 * score >= 50 THEN 200 - 10 * score ELSE 50)
                        ELSE 200]_vars
  /\ [](currentMode # "speed" => moveInterval = 200)

\* C25's case: in speed mode the score has passed the point where the
\* interval would fall below the minimum, and the interval is the minimum.
C25_AtMinimum ==
  /\ currentMode = "speed"
  /\ 200 - 10 * score < 50
  /\ moveInterval = 50
  /\ newSpeed = 50

\* C26: for the player, no more than 10 rows are inserted into the cloud
\* table within any one minute, for any interleaving of syncScore and
\* syncScores calls, concurrent ones and batches of several entries included.
C26_AtMostTenPerMinute ==
  \A from \in Times :
    RowsSent(sent, {t \in Times : from <= t /\ t < from + MINUTE})
      <= MAX_INSERTS_PER_MINUTE

\* C27: each local score entry is inserted into the cloud table at most once,
\* however the background sync of addScore and the batch of
\* syncAllUnsyncedScores interleave.
C27_InsertedAtMostOnce == \A id \in 1 .. MaxEntries : cloud[id] <= 1

\* The updates of systems in a record of a run, in order, and the place of an
\* entry in the record of the step's run.
SystemsUpdated(record) ==
  LET isSystem(what) == what \in {"input", "movement", "collision", "render"}
  IN  SelectSeq(record, isSystem)
PlaceNext(what) == CHOOSE i \in 1 .. Len(signals') : signals'[i] = what
\* The step is a frame of a Playing engine: of the handlers of a session only
\* a frame changes one of these fields.
FrameRan ==
  /\ state = PLAYING
  /\ <<accumulator, signals, body, velocity, rafQueue, animationFrameId>>'
       # <<accumulator, signals, body, velocity, rafQueue, animationFrameId>>

\* C28: every frame executed while Playing updates each registered system
\* exactly once, in the order Input, Movement, Collision, Render; the move a
\* frame commits is made between the movement and the collision updates, and
\* the collision checks of that frame judge the head the move produced: food
\* is signalled exactly when the new head is on the food (not being eaten
\* already), game-over exactly when it is on another segment of the new body.
C28_SystemsInOrder ==
  /\ [](signals # <<>> =>
          SystemsUpdated(signals) = <<"input", "movement", "collision", "render">>)
  /\ [][FrameRan =>
          SystemsUpdated(signals') = <<"input", "movement", "collision", "render">>]_vars
  /\ [][Moved =>
          /\ PlaceNext("movement") < PlaceNext("move")
          /\ PlaceNext("move") < PlaceNext("collision")
          /\ HasNext("food") <=> (body'[1] = foodPosition /\ ~isBeingEaten)
          /\ HasNext("food") => PlaceNext("collision") < PlaceNext("food")
          /\ HasNext("gameOver") <=> \E i \in 2 .. Len(body') : body'[i] = body'[1]]_vars

\* C28's case: in wall mode the move of a frame has put the head on the food
\* and the collision update of the same frame has signalled it.
C28_AteOnArrival ==
  /\ hasWallCollision
  /\ signals = <<"input", "movement", "move", "collision", "food", "render">>
  /\ body[1] = foodPosition
  /\ isBeingEaten
  /\ shouldGrow

\* The step is a frame of a Playing engine that kept its accumulated time,
\* and the frame has called moveSnake.
TimedFrameRan == FrameRan \/ (state = PLAYING /\ accumulated' # accumulated)
Attempted == HasNext("move") \/ HasNext("wallCollision")
Count(record, what) == Cardinality({i \in 1 .. Len(record) : record[i] = what})

\* C29: a frame makes at most one discrete move whatever its elapsed time; it
\* calls moveSnake if and only if the accumulator plus the frame's elapsed
\* time has reached the move interval; after such a frame the accumulator is
\* exactly 0, after any other it is the accumulated time; a session starts
\* with the accumulator at 0.
C29_OneMovePerInterval ==
  /\ [](state = IDLE => accumulator = 0)
  /\ [][TimedFrameRan =>
          /\ accumulated' - accumulator \in Deltas
          /\ Attempted <=> accumulated' >= moveInterval
          /\ Attempted => accumulator' = 0
          /\ ~Attempted => accumulator' = accumulated' /\ body' = body
          /\ Count(signals', "move") + Count(signals', "wallCollision") <= 1
          /\ Count(signals', "movement") = 1
          /\ Moved <=> HasNext("move")]_vars

\* C29's case: a frame found more accumulated time than the interval, moved
\* the snake once and left the accumulator at 0.
C29_ExcessDiscarded ==
  /\ accumulated > moveInterval
  /\ accumulator = 0
  /\ Count(signals, "move") = 1
  /\ state = PLAYING

\* C30: a frame whose move puts the head on food that is not being eaten
\* requests growth and the food-eaten callback once (one "food" entry in the
\* frame's record, the food marked as being eaten, its timer pending); a
\* frame that runs while the food is being eaten requests nothing, however
\* long the head stays on the cell; a timer is pending exactly while the food
\* is being eaten and it eventually fires; the food stops being eaten only in
\* the step where that timer fires and relocates it off the snake.
C30_EatenOncePerLanding ==
  /\ [](eatTimer <=> isBeingEaten)
  /\ [](body[1] = foodPosition => isBeingEaten)
  /\ [][Moved /\ body'[1] = foodPosition /\ ~isBeingEaten =>
          /\ Count(signals', "food") = 1
          /\ shouldGrow' /\ isBeingEaten' /\ eatTimer']_vars
  /\ [][FrameRan /\ HasNext("food") => Moved /\ body'[1] = foodPosition /\ ~isBeingEaten]_vars
  /\ [][FrameRan /\ isBeingEaten =>
          /\ ~HasNext("food")
          /\ isBeingEaten' /\ eatTimer' /\ foodPosition' = foodPosition
          /\ ~Moved => shouldGrow' = shouldGrow]_vars
  /\ [][isBeingEaten /\ ~isBeingEaten' =>
          eatTimer /\ ~eatTimer' /\ ~isExcluded(foodPosition', body)]_vars
  /\ (isBeingEaten ~> ~isBeingEaten)

\* C30's case: the head is still on the cell of the food it landed on (the
\* snake has not moved since: the growth is pending), and a later frame has
\* run the collision check without a second request.
C30_StillOnFood ==
  /\ body[1] = foodPosition
  /\ isBeingEaten /\ eatTimer /\ shouldGrow
  /\ Len(body) = 1
  /\ signals = <<"input", "movement", "collision", "render">>
  /\ state = PLAYING

\* The program before the collision update of a frame that finds deltaTime
\* elapsed: the input and the movement systems have run.
BeforeCollision(deltaTime) ==
  Signal(MovementUpdate(Signal(InputUpdate([Cur EXCEPT !.signals = <<"input">>]),
                               "movement"), deltaTime), "collision")

\* C31: whatever state a frame's movement leaves, CollisionSystem.update
\* leaves the snake's body and velocity, the food's position and the
\* superfood's anchor as they were (the obstacles are only read); of the
\* entities it changes only the being-eaten flags and the growth flag, which
\* it sets and never clears.
C31_CollisionKeepsPositions ==
  \A deltaTime \in Deltas :
    LET before == BeforeCollision(deltaTime)
        after == CollisionUpdate(before)
    IN  /\ after.body = before.body
        /\ after.velocity = before.velocity
        /\ after.foodPosition = before.foodPosition
        /\ after.csSuperFood = before.csSuperFood
        /\ after.accumulator = before.accumulator
        /\ after.pendingDirection = before.pendingDirection
        /\ before.isBeingEaten => after.isBeingEaten
        /\ before.superBeingEaten => after.superBeingEaten
        /\ before.shouldGrow => after.shouldGrow

\* C31's case: the collision update of a frame has eaten the superfood under
\* the head the move of that frame produced.
C31_AteSuperFood ==
  /\ Has("move") /\ Has("superFood")
  /\ \E k \in 1 .. SIZE * SIZE : getCoveredCells(csSuperFood)[k] = body[1]
  /\ superBeingEaten /\ shouldGrow
  /\ csSuperFood # NoSuperFood

\* Two cells are neighbours: equal on one axis and one step apart on the
\* other, where across the edge counts as one step when the board wraps.
Distance(a, b) == IF a >= b THEN a - b ELSE b - a
OneStep(a, b, wraps) == Distance(a, b) = 1 \/ (wraps /\ Distance(a, b) = BOARD_SIZE - 1)
Neighbours(p, q, wraps) ==
  \/ p[1] = q[1] /\ OneStep(p[2], q[2], wraps)
  \/ p[2] = q[2] /\ OneStep(p[1], q[1], wraps)

\* C32: in every reachable state the body has at least one segment and every
\* two consecutive segments are neighbours, across the edge only in wrap mode.
C32_BodyConnected ==
  /\ Len(body) >= 1
  /\ \A i \in 1 .. Len(body) - 1 : Neighbours(body[i], body[i + 1], ~hasWallCollision)

\* C32's case: a snake of three segments whose head has crossed the edge of
\* a wrapping board: the head is the neighbour of the second segment only
\* across the edge.
C32_AcrossTheEdge ==
  /\ ~hasWallCollision
  /\ Len(body) = 3
  /\ ~Neighbours(body[1], body[2], FALSE)
  /\ Neighbours(body[2], body[3], FALSE)

\* C33: for every cell of the board and every unit velocity wrapPosition
\* sends head.add(velocity) to the sum taken modulo BOARD_SIZE on each axis;
\* the head a move commits in wrap mode is that cell, for the velocity the
\* move used.
C33_WrapIsModulo ==
  /\ \A p \in Cells, v \in DIRECTIONS :
       wrapPosition(PositionAdd(p, v)) = <<(p[1] + v[1]) % BOARD_SIZE, (p[2] + v[2]) % BOARD_SIZE>>
  /\ [][Moved /\ ~hasWallCollision =>
          /\ lastMoveDir' = velocity'
          /\ body'[1] = <<(body[1][1] + velocity'[1]) % BOARD_SIZE,
                          (body[1][2] + velocity'[2]) % BOARD_SIZE>>]_vars

\* C33's case: a move to the left from the first column has put the head in
\* the last one.
C33_WrappedLeft ==
  /\ ~hasWallCollision
  /\ lastMoveDir = LEFT
  /\ Len(body) = 2
  /\ body[2][1] = 0 /\ body[1][1] = BOARD_SIZE - 1
  /\ body[1][2] = body[2][2]

\* C34: when a superfood is spawned, each of its covered cells is a cell of the
\* board, none is a cell of the snake's body and none is the food's cell.
C34_SpawnedOnFreeCells ==
  [][issued' = issued + 1 =>
       /\ active' /\ superFood' # NoSuperFood /\ csSuperFood' = superFood'
       /\ \A k \in 1 .. SIZE * SIZE :
            LET cell == getCoveredCells(superFood')[k]
            IN  /\ cell \in Cells
                /\ ~isExcluded(cell, body')
                /\ cell # foodPosition']_vars

\* C34's case: a superfood has been spawned and not touched; with the snake and
\* the food where they are, its anchor is the only one whose area is free.
C34_SpawnedOnTheOnlyFreeArea ==
  /\ active /\ issued = 1 /\ superFood # NoSuperFood
  /\ ~superBeingEaten /\ superCollisions = 0
  /\ foodPosition \in Cells /\ ~isExcluded(foodPosition, body)
  /\ generateRandomTopLeftArea(SIZE, SIZE, Append(body, foodPosition)) = {superFood}

\* C35: a spawned superfood ends in exactly one way: of the superfood-eaten
\* signal and the expired signal at most one is delivered for it, whatever the
\* order of the expiry timer and the delayed superfood-eaten callback, and it
\* is eaten at most once. Counted over a session: the collisions with
\* superfoods, and the signals delivered (expiries, and collisions whose
\* callback has run), are no more than the superfoods spawned.
C35_EndsInOneWay ==
  /\ superCollisions <= issued
  /\ Len(expired) + (superCollisions - superEatTimers) <= issued

C37_StoppedUntilStart ==
  state = GAME_OVER =>
    \A after \in {pause(Cur), resume(Cur), pause(pause(Cur)), resume(resume(Cur)),
                  pause(resume(Cur)), resume(pause(Cur))} :
      /\ after.state # PLAYING
      /\ after.rafQueue = rafQueue /\ after.animationFrameId = animationFrameId
      /\ after.signals = signals
      /\ after.body = body /\ after.accumulator = accumulator

C40_PausedTimeNotCounted ==
  [][state = PAUSED /\ accumulator < moveInterval =>
       /\ accumulator' = accumulator
       /\ body' = body]_vars

\* C40's case: an engine paused in mid-interval has been resumed while the
\* frame callback of before the pause was still pending; the accumulator holds
\* what it held and the snake has not moved since the session began.
C40_ResumedInMidInterval ==
  /\ state = PLAYING
  /\ Cardinality(rafQueue) = 2
  /\ accumulator = FrameStep
  /\ Len(body) = 1 /\ body[1] = <<BOARD_SIZE \div 2, BOARD_SIZE \div 2>>
  /\ lastMoveDir = NoDirection

====
